---- MODULE Spec2Model ----
(***************************************************************************)
(* Model of pytube's StreamQuery (src/pytube/query.py): a query object     *)
(* wrapping a Python list of stream descriptors and an itag -> stream      *)
(* dictionary.  Python lists are heap objects with identity (`lists`), a   *)
(* StreamQuery holds a reference to one of them (`fmt_streams`) and its    *)
(* own dictionary (`itag_index`).                                          *)
(***************************************************************************)
EXTENDS Integers, Sequences, FiniteSets, TLC

\* ------------------------------------------------------------------------
\* Bounds
\* ------------------------------------------------------------------------
MaxLen == 3        \* longest list handed to the constructor / grown by a caller
MaxQueries == 2    \* StreamQuery objects alive at once
MaxEdits == 1      \* modifications a caller makes through a handle of all()

\* ------------------------------------------------------------------------
\* Python values: None, bool, int, str and list (of predicate names)
\* ------------------------------------------------------------------------
None == [t |-> "none", n |-> 0, s |-> "", l |-> <<>>]
IntV(k) == [t |-> "int", n |-> k, s |-> "", l |-> <<>>]
StrV(x) == [t |-> "str", n |-> 0, s |-> x, l |-> <<>>]
BoolV(b) == [t |-> "bool", n |-> IF b THEN 1 ELSE 0, s |-> "", l |-> <<>>]
ListV(fns) == [t |-> "list", n |-> 0, s |-> "", l |-> fns]

\* bool(v): None, False, 0, "" and [] are falsy
Truthy(v) ==
    CASE v.t = "none" -> FALSE
      [] v.t = "bool" -> v.n # 0
      [] v.t = "int" -> v.n # 0
      [] v.t = "str" -> v.s # ""
      [] v.t = "list" -> v.l # <<>>

\* (mutant) `b or a`: the second name of an aliased pair wins
PyOrSwapped(a, b) == IF Truthy(b) THEN b ELSE a

\* a or b
PyOr(a, b) == IF Truthy(a) THEN a ELSE b

\* a == b (bool is a subclass of int; values of unrelated types are unequal)
PyEq(a, b) ==
    CASE a.t \in {"int", "bool"} /\ b.t \in {"int", "bool"} -> a.n = b.n
      [] a.t = "str" /\ b.t = "str" -> a.s = b.s
      [] a.t = "none" /\ b.t = "none" -> TRUE
      [] a.t = "list" /\ b.t = "list" -> a.l = b.l
      [] OTHER -> FALSE

\* the strings of the model in lexicographic (code point) order
StrOrder == <<"", "128kbps", "18", "360p", "720p", "96kbps">>
StrRank(x) == CHOOSE i \in 1..Len(StrOrder) : StrOrder[i] = x

\* a < b on two values of the same type
PyLess(a, b) ==
    IF a.t = "str" THEN StrRank(a.s) < StrRank(b.s) ELSE a.n < b.n

\* int(v) for the integer-like identifiers of the model
PyInt(v) ==
    CASE v.t \in {"int", "bool"} -> v.n
      [] v.t = "str" /\ v.s = "18" -> 18

\* ------------------------------------------------------------------------
\* Stream descriptors (external objects; identity = position in the table)
\* ------------------------------------------------------------------------
StreamTable == <<
    [itag |-> StrV("18"), resolution |-> StrV("360p"), fps |-> IntV(30),
     mime_type |-> StrV("video/mp4"), type |-> StrV("video"),
     subtype |-> StrV("mp4"), abr |-> StrV("96kbps"),
     video_codec |-> StrV("avc1"), audio_codec |-> StrV("mp4a"),
     includes_audio_track |-> BoolV(TRUE), includes_video_track |-> BoolV(TRUE),
     is_progressive |-> BoolV(TRUE), is_adaptive |-> BoolV(FALSE)],
    [itag |-> IntV(22), resolution |-> StrV("720p"), fps |-> IntV(30),
     mime_type |-> StrV("video/mp4"), type |-> StrV("video"),
     subtype |-> StrV("mp4"), abr |-> StrV("128kbps"),
     video_codec |-> StrV("avc1"), audio_codec |-> StrV("mp4a"),
     includes_audio_track |-> BoolV(TRUE), includes_video_track |-> BoolV(TRUE),
     is_progressive |-> BoolV(TRUE), is_adaptive |-> BoolV(FALSE)],
    \* a video-only descriptor that repeats identifier 18 and has no fps
    [itag |-> IntV(18), resolution |-> StrV("360p"),
     mime_type |-> StrV("video/webm"), type |-> StrV("video"),
     subtype |-> StrV("webm"), abr |-> StrV("96kbps"),
     video_codec |-> StrV("vp9"), audio_codec |-> StrV(""),
     includes_audio_track |-> BoolV(FALSE), includes_video_track |-> BoolV(TRUE),
     is_progressive |-> BoolV(FALSE), is_adaptive |-> BoolV(TRUE)] >>

Streams == 1..Len(StreamTable)

\* hasattr(s, name) / getattr(s, name)
HasAttr(s, name) == name \in DOMAIN StreamTable[s]
GetAttr(s, name) == StreamTable[s][name]

\* the identifier of a descriptor in canonical integer form
Itag(s) == PyInt(GetAttr(s, "itag"))

\* ------------------------------------------------------------------------
\* State
\* ------------------------------------------------------------------------
VARIABLES
    lists,      \* heap of Python list objects: list id -> sequence of streams
    queries,    \* StreamQuery objects: [fmt_streams: list id, itag_index]
    last,       \* the most recent call, its arguments and what it returned
    edits       \* number of caller modifications made through a handle

vars == <<lists, queries, last, edits>>

\* (mutant) an index that keeps the first descriptor of each identifier
RECURSIVE BuildIndexFirstWins(_)
BuildIndexFirstWins(seq) ==
    IF seq = <<>> THEN <<>>
    ELSE LET n == Len(seq)
             idx == BuildIndexFirstWins(SubSeq(seq, 1, n - 1))
             k == Itag(seq[n])
         IN [x \in (DOMAIN idx) \cup {k} |->
                IF x \in DOMAIN idx THEN idx[x] ELSE seq[n]]

\* {int(s.itag): s for s in fmt_streams}, later entries overwrite earlier
RECURSIVE BuildIndex(_)
BuildIndex(seq) ==
    IF seq = <<>> THEN <<>>
    ELSE LET n == Len(seq)
             idx == BuildIndex(SubSeq(seq, 1, n - 1))
             k == Itag(seq[n])
         IN [x \in (DOMAIN idx) \cup {k} |-> IF x = k THEN seq[n] ELSE idx[x]]

\* StreamQuery.__init__ on the list object `lid`, in the heap `heap`
StreamQuery(heap, lid) ==
    [fmt_streams |-> lid, itag_index |-> BuildIndex(heap[lid])]

\* self.fmt_streams of query q, read through the reference
QSeq(q) == lists[queries[q].fmt_streams]
QIdx(q) == queries[q].itag_index

Range(seq) == {seq[i] : i \in 1..Len(seq)}

\* lists of distinct descriptors of length at most n
SeqsUpTo(n) ==
    {sq \in UNION {[1..k -> Streams] : k \in 0..n} :
        \A i, j \in 1..Len(sq) : i # j => sq[i] # sq[j]}

\* ------------------------------------------------------------------------
\* Filter criteria: the keyword arguments of StreamQuery.filter
\* ------------------------------------------------------------------------
NoCriteria ==
    [fps |-> None, res |-> None, resolution |-> None, mime_type |-> None,
     type |-> None, subtype |-> None, file_extension |-> None, abr |-> None,
     bitrate |-> None, video_codec |-> None, audio_codec |-> None,
     only_audio |-> None, only_video |-> None, progressive |-> None,
     adaptive |-> None, custom_filter_functions |-> None]

OptionNames == DOMAIN NoCriteria

\* fn(s) for a caller-supplied predicate (StreamDescriptor) -> bool, here
\* `lambda s: s.subtype == "mp4"` and `lambda s: s.fps == 30`: "T", "F", or
\* "E" when it raises
\* AttributeError on a descriptor lacking the attribute it reads
ApplyCustom(fn, s) ==
    CASE fn = "is_mp4" ->
            IF PyEq(GetAttr(s, "subtype"), StrV("mp4")) THEN "T" ELSE "F"
      [] fn = "fps_30" ->
            IF ~HasAttr(s, "fps") THEN "E"
            ELSE IF PyEq(GetAttr(s, "fps"), IntV(30)) THEN "T" ELSE "F"

\* values a caller passes for each option (besides omitting it)
OptionValues(o) ==
    CASE o = "fps" -> {IntV(0), IntV(30)}
      [] o = "res" -> {StrV(""), StrV("720p")}
      [] o = "resolution" -> {StrV(""), StrV("360p")}
      [] o = "mime_type" -> {StrV("video/mp4")}
      [] o = "type" -> {StrV("video")}
      [] o = "subtype" -> {StrV(""), StrV("mp4")}
      [] o = "file_extension" -> {StrV("webm")}
      [] o = "abr" -> {StrV("96kbps")}
      [] o = "bitrate" -> {StrV(""), StrV("128kbps")}
      [] o = "video_codec" -> {StrV("avc1")}
      [] o = "audio_codec" -> {StrV("mp4a")}
      [] o \in {"only_audio", "adaptive"} -> {BoolV(FALSE), BoolV(TRUE)}
      [] o \in {"only_video", "progressive"} -> {BoolV(TRUE)}
      [] o = "custom_filter_functions" ->
            {ListV(<<>>), ListV(<<"is_mp4">>), ListV(<<"is_mp4", "fps_30">>)}

\* pairs of options given together
OptionPairs ==
    {<<"res", "resolution">>, <<"subtype", "file_extension">>,
     <<"abr", "bitrate">>, <<"only_audio", "only_video">>,
     <<"type", "custom_filter_functions">>}

SetTwo(a, va, b, vb) == [NoCriteria EXCEPT ![a] = va, ![b] = vb]

\* the criteria a caller passes: nothing, one option, or one of OptionPairs
Criteria ==
    {NoCriteria}
    \cup UNION {{[NoCriteria EXCEPT ![o] = v] : v \in OptionValues(o)} :
                    o \in OptionNames}
    \cup UNION {UNION {{SetTwo(p[1], va, p[2], vb) : vb \in OptionValues(p[2])} :
                    va \in OptionValues(p[1])} : p \in OptionPairs}

\* ------------------------------------------------------------------------
\* StreamQuery.filter
\* ------------------------------------------------------------------------
\* the predicates appended to `filters`
EqPred(name, v) == [kind |-> "eq", attr |-> name, val |-> v, fn |-> ""]
FlagPred(k) == [kind |-> k, attr |-> "", val |-> None, fn |-> ""]
CustomPred(f) == [kind |-> "custom", attr |-> "", val |-> None, fn |-> f]

\* fn(s) for one predicate: "T" (truthy), "F" (falsy), "E" (AttributeError)
EvalPred(p, s) ==
    CASE p.kind = "eq" ->
            IF ~HasAttr(s, p.attr) THEN "E"
            ELSE IF PyEq(GetAttr(s, p.attr), p.val) THEN "T" ELSE "F"
      [] p.kind = "only_audio" ->
            \* s.includes_audio_track and not s.includes_video_track
            IF ~HasAttr(s, "includes_audio_track") THEN "E"
            ELSE IF ~Truthy(GetAttr(s, "includes_audio_track")) THEN "F"
            ELSE IF ~HasAttr(s, "includes_video_track") THEN "E"
            ELSE IF Truthy(GetAttr(s, "includes_video_track")) THEN "F" ELSE "T"
      [] p.kind = "only_video" ->
            \* s.includes_video_track and not s.includes_audio_track
            IF ~HasAttr(s, "includes_video_track") THEN "E"
            ELSE IF ~Truthy(GetAttr(s, "includes_video_track")) THEN "F"
            ELSE IF ~HasAttr(s, "includes_audio_track") THEN "E"
            ELSE IF Truthy(GetAttr(s, "includes_audio_track")) THEN "F" ELSE "T"
      [] p.kind = "progressive" ->
            IF ~HasAttr(s, "is_progressive") THEN "E"
            ELSE IF Truthy(GetAttr(s, "is_progressive")) THEN "T" ELSE "F"
      [] p.kind = "adaptive" ->
            IF ~HasAttr(s, "is_adaptive") THEN "E"
            ELSE IF Truthy(GetAttr(s, "is_adaptive")) THEN "T" ELSE "F"
      [] p.kind = "custom" -> ApplyCustom(p.fn, s)

\* `if x: filters.append(pred)`
AppendIf(cond, pred) == IF Truthy(cond) THEN <<pred>> ELSE <<>>

\* `if custom_filter_functions: for fn in ...: filters.append(fn)`
CustomPreds(v) ==
    IF Truthy(v) THEN [i \in 1..Len(v.l) |-> CustomPred(v.l[i])] ELSE <<>>

\* the list `filters` built by lines 63-110
BuildFilters(c) ==
    AppendIf(PyOr(c.res, c.resolution),
             EqPred("resolution", PyOr(c.res, c.resolution)))
    \o AppendIf(c.fps, EqPred("fps", c.fps))
    \o AppendIf(c.mime_type, EqPred("mime_type", c.mime_type))
    \o AppendIf(c.type, EqPred("type", c.type))
    \o AppendIf(PyOr(c.subtype, c.file_extension),
                EqPred("subtype", PyOr(c.subtype, c.file_extension)))
    \o AppendIf(PyOr(c.abr, c.bitrate), EqPred("abr", PyOr(c.abr, c.bitrate)))
    \o AppendIf(c.video_codec, EqPred("video_codec", c.video_codec))
    \o AppendIf(c.audio_codec, EqPred("audio_codec", c.audio_codec))
    \o AppendIf(c.only_audio, FlagPred("only_audio"))
    \o AppendIf(c.only_video, FlagPred("only_video"))
    \o AppendIf(c.progressive, FlagPred("progressive"))
    \o AppendIf(c.adaptive, FlagPred("adaptive"))
    \o CustomPreds(c.custom_filter_functions)

\* list(filter(fn, seq)): fn is called on every element in order; the first
\* AttributeError propagates
ApplyPred(p, seq) ==
    LET Keep(s) == EvalPred(p, s) = "T"
    IN [exc |-> IF \E i \in 1..Len(seq) : EvalPred(p, seq[i]) = "E"
                THEN "AttributeError" ELSE "",
        seq |-> SelectSeq(seq, Keep)]

\* (mutant) only the first predicate of `filters` is applied
RunFiltersFirstOnly(filters, seq) ==
    IF filters = <<>> THEN [exc |-> "", seq |-> seq]
    ELSE LET r == ApplyPred(Head(filters), seq)
         IN IF r.exc # "" THEN [exc |-> r.exc, seq |-> <<>>] ELSE r

\* `for fn in filters: fmt_streams = list(filter(fn, fmt_streams))`
RECURSIVE RunFilters(_, _)
RunFilters(filters, seq) ==
    IF filters = <<>> THEN [exc |-> "", seq |-> seq]
    ELSE LET r == ApplyPred(Head(filters), seq)
         IN IF r.exc # "" THEN [exc |-> r.exc, seq |-> <<>>]
            ELSE RunFilters(Tail(filters), r.seq)

\* ------------------------------------------------------------------------
\* Calls and their results
\* ------------------------------------------------------------------------
\* 0 stands for "no object": Python's None where a stream, query or list is
\* returned
Call ==
    [op |-> "", q |-> 0, crit |-> NoCriteria, attr |-> "", id |-> None,
     pre |-> <<>>, outcome |-> "ok", retq |-> 0, rets |-> 0, retn |-> 0,
     reth |-> 0]

Init ==
    \E fmt_streams \in SeqsUpTo(MaxLen) :
        /\ lists = <<fmt_streams>>
        /\ queries = <<StreamQuery(<<fmt_streams>>, 1)>>
        /\ last = [Call EXCEPT !.op = "init", !.retq = 1]
        /\ edits = 0

Q == 1..Len(queries)

\* the heap after `fmt_streams = self.fmt_streams; for fn in filters: ...`:
\* with no predicate the same list object is passed on, otherwise list()
\* allocates a new one
FilterHeap(q, filters, seq) ==
    IF filters = <<>> THEN lists ELSE Append(lists, seq)

FilterRef(q, filters) ==
    IF filters = <<>> THEN queries[q].fmt_streams ELSE Len(lists) + 1

Filter(q, c) ==
    LET filters == BuildFilters(c)
        r == RunFilters(filters, QSeq(q))
        call == [Call EXCEPT !.op = "filter", !.q = q, !.crit = c,
                             !.pre = QSeq(q)]
    IN /\ Len(queries) < MaxQueries
       /\ IF r.exc # ""
          THEN /\ last' = [call EXCEPT !.outcome = r.exc]
               /\ UNCHANGED <<lists, queries, edits>>
          ELSE /\ lists' = FilterHeap(q, filters, r.seq)
               /\ queries' = Append(queries,
                                StreamQuery(lists', FilterRef(q, filters)))
               /\ last' = [call EXCEPT !.retq = Len(queries) + 1]
               /\ UNCHANGED edits

\* ------------------------------------------------------------------------
\* StreamQuery.order_by
\* ------------------------------------------------------------------------
\* attribute names a caller sorts by ("height" is on no descriptor)
SortAttrs == {"resolution", "abr", "fps", "height"}

\* (mutant) an unstable insertion: x goes before the first element whose key
\* is not smaller than its own
RECURSIVE InsertSortedUnstable(_, _, _)
InsertSortedUnstable(sorted, x, name) ==
    IF sorted = <<>> THEN <<x>>
    ELSE IF ~PyLess(GetAttr(Head(sorted), name), GetAttr(x, name))
         THEN <<x>> \o sorted
         ELSE <<Head(sorted)>> \o InsertSortedUnstable(Tail(sorted), x, name)

\* one step of the stable sort: x goes before the first element whose key is
\* greater than its own (sorted() only ever asks key(x) < key(y))
RECURSIVE InsertSorted(_, _, _)
InsertSorted(sorted, x, name) ==
    IF sorted = <<>> THEN <<x>>
    ELSE IF PyLess(GetAttr(x, name), GetAttr(Head(sorted), name))
         THEN <<x>> \o sorted
         ELSE <<Head(sorted)>> \o InsertSorted(Tail(sorted), x, name)

RECURSIVE SortedBy(_, _)
SortedBy(seq, name) ==
    IF seq = <<>> THEN <<>>
    ELSE InsertSorted(SortedBy(SubSeq(seq, 1, Len(seq) - 1), name),
                      seq[Len(seq)], name)

\* (mutant) getattr(s, attribute_name, None) with the descriptors lacking the
\* attribute left out: the error is swallowed
SortedSwallowing(seq, name) ==
    LET Has(s) == HasAttr(s, name)
    IN [exc |-> "", seq |-> SortedBy(SelectSeq(seq, Has), name)]

\* sorted(self.fmt_streams, key=lambda s: getattr(s, attribute_name)): the
\* key is taken of every element before anything is compared, and getattr
\* raises AttributeError on a descriptor without the attribute
Sorted(seq, name) ==
    IF \E i \in 1..Len(seq) : ~HasAttr(seq[i], name)
    THEN [exc |-> "AttributeError", seq |-> <<>>]
    ELSE [exc |-> "", seq |-> SortedBy(seq, name)]

OrderBy(q, name) ==
    LET r == Sorted(QSeq(q), name)
        call == [Call EXCEPT !.op = "order_by", !.q = q, !.attr = name,
                             !.pre = QSeq(q)]
    IN /\ Len(queries) < MaxQueries
       /\ IF r.exc # ""
          THEN /\ last' = [call EXCEPT !.outcome = r.exc]
               /\ UNCHANGED <<lists, queries, edits>>
          ELSE /\ lists' = Append(lists, r.seq)
               /\ queries' = Append(queries, StreamQuery(lists', Len(lists')))
               /\ last' = [call EXCEPT !.retq = Len(queries) + 1]
               /\ UNCHANGED edits

\* ------------------------------------------------------------------------
\* StreamQuery.desc / StreamQuery.asc
\* ------------------------------------------------------------------------
\* (mutant) seq[1:] + seq[:1], a rotation instead of a reversal
Rotated(seq) ==
    IF seq = <<>> THEN <<>> ELSE Tail(seq) \o <<Head(seq)>>

\* seq[::-1]
Reversed(seq) == [i \in 1..Len(seq) |-> seq[Len(seq) + 1 - i]]

\* (mutant) self.fmt_streams.reverse() before the copy is taken: the
\* receiver's own list is reversed in place
DescHeapInPlace(q) ==
    Append([lists EXCEPT ![queries[q].fmt_streams] = Reversed(@)],
           Reversed(QSeq(q)))

\* the heap after `self.fmt_streams[::-1]`: the slice is a new list
DescHeap(q) == Append(lists, Reversed(QSeq(q)))

Desc(q) ==
    /\ Len(queries) < MaxQueries
    /\ lists' = DescHeap(q)
    /\ queries' = Append(queries, StreamQuery(lists', Len(lists')))
    /\ last' = [Call EXCEPT !.op = "desc", !.q = q, !.pre = QSeq(q),
                            !.retq = Len(queries) + 1]
    /\ UNCHANGED edits

\* `return self`
Asc(q) ==
    /\ last' = [Call EXCEPT !.op = "asc", !.q = q, !.pre = QSeq(q), !.retq = q]
    /\ UNCHANGED <<lists, queries, edits>>

\* ------------------------------------------------------------------------
\* Terminal accessors
\* ------------------------------------------------------------------------
\* identifiers a caller looks up
Ids == {IntV(18), StrV("18"), IntV(22), IntV(999)}

\* d[key] on the itag dictionary, whose keys are ints: a str or None key
\* hashes to no entry
DictGet(d, key) ==
    IF key.t \in {"int", "bool"} /\ key.n \in DOMAIN d
    THEN [exc |-> "", val |-> d[key.n]]
    ELSE [exc |-> "KeyError", val |-> 0]

\* seq[i] with Python's 0-based / negative indexing
ListGet(seq, i) ==
    LET k == IF i < 0 THEN Len(seq) + i + 1 ELSE i + 1
    IN IF k \in 1..Len(seq) THEN [exc |-> "", val |-> seq[k]]
       ELSE [exc |-> "IndexError", val |-> 0]

\* try: return <r>  except <cls>: pass   (falls through, returning None)
TryExcept(r, cls) == IF r.exc = cls THEN [exc |-> "", val |-> 0] ELSE r

\* (mutant) `return self.fmt_streams[-1]` without the try/except
LastResultUncaught(q) == ListGet(QSeq(q), -1)

GetByItagResult(q, itag) == TryExcept(DictGet(QIdx(q), itag), "KeyError")
FirstResult(q) == TryExcept(ListGet(QSeq(q), 0), "IndexError")
LastResult(q) == TryExcept(ListGet(QSeq(q), -1), "IndexError")

Returned(call, r) ==
    [call EXCEPT !.outcome = IF r.exc = "" THEN "ok" ELSE r.exc,
                 !.rets = r.val]

GetByItag(q, itag) ==
    /\ last' = Returned([Call EXCEPT !.op = "get_by_itag", !.q = q,
                                     !.id = itag, !.pre = QSeq(q)],
                        GetByItagResult(q, itag))
    /\ UNCHANGED <<lists, queries, edits>>

First(q) ==
    /\ last' = Returned([Call EXCEPT !.op = "first", !.q = q, !.pre = QSeq(q)],
                        FirstResult(q))
    /\ UNCHANGED <<lists, queries, edits>>

Last(q) ==
    /\ last' = Returned([Call EXCEPT !.op = "last", !.q = q, !.pre = QSeq(q)],
                        LastResult(q))
    /\ UNCHANGED <<lists, queries, edits>>

Count(q) ==
    /\ last' = [Call EXCEPT !.op = "count", !.q = q, !.pre = QSeq(q),
                            !.retn = Len(QSeq(q))]
    /\ UNCHANGED <<lists, queries, edits>>

\* `return self.fmt_streams`: the caller receives the list object itself
AllHandle(q) == queries[q].fmt_streams

All(q) ==
    /\ last' = [Call EXCEPT !.op = "all", !.q = q, !.pre = QSeq(q),
                            !.reth = AllHandle(q)]
    /\ UNCHANGED <<lists, queries, edits>>

Next ==
    \/ \E q \in Q, c \in Criteria : Filter(q, c)
    \/ \E q \in Q, name \in SortAttrs : OrderBy(q, name)
    \/ \E q \in Q : Desc(q)
    \/ \E q \in Q : Asc(q)
    \/ \E q \in Q, itag \in Ids : GetByItag(q, itag)
    \/ \E q \in Q : First(q)
    \/ \E q \in Q : Last(q)
    \/ \E q \in Q : Count(q)
    \/ \E q \in Q : All(q)

Spec == Init /\ [][Next]_vars

\* ------------------------------------------------------------------------
\* A caller that modifies the list it was handed by all()
\* ------------------------------------------------------------------------
\* the call that handed out `h` was the last one; q is the query it was made on
HandleAppend(s) ==
    /\ last.op = "all"
    /\ edits < MaxEdits
    /\ Len(lists[last.reth]) < MaxLen
    /\ s \notin Range(lists[last.reth])
    /\ lists' = [lists EXCEPT ![last.reth] = Append(@, s)]
    /\ last' = [last EXCEPT !.op = "handle_append"]
    /\ edits' = edits + 1
    /\ UNCHANGED queries

HandlePop ==
    /\ last.op = "all"
    /\ edits < MaxEdits
    /\ lists[last.reth] # <<>>
    /\ lists' = [lists EXCEPT ![last.reth] = SubSeq(@, 1, Len(@) - 1)]
    /\ last' = [last EXCEPT !.op = "handle_pop"]
    /\ edits' = edits + 1
    /\ UNCHANGED queries

HandleReverse ==
    /\ last.op = "all"
    /\ edits < MaxEdits
    /\ lists' = [lists EXCEPT ![last.reth] = Reversed(@)]
    /\ last' = [last EXCEPT !.op = "handle_reverse"]
    /\ edits' = edits + 1
    /\ UNCHANGED queries

NextHandle ==
    \/ Next
    \/ \E s \in Streams : HandleAppend(s)
    \/ HandlePop
    \/ HandleReverse

SpecHandle == Init /\ [][NextHandle]_vars

\* ------------------------------------------------------------------------
\* Properties
\* ------------------------------------------------------------------------
Returns(op) == last.op = op /\ last.outcome = "ok"

\* the sequence of the Query the last call returned
Result == QSeq(last.retq)

\* position of descriptor s in seq
Pos(seq, s) == CHOOSE i \in 1..Len(seq) : seq[i] = s

Matches(s, name, v) == HasAttr(s, name) /\ PyEq(GetAttr(s, name), v)
Flag(s, name) == HasAttr(s, name) /\ Truthy(GetAttr(s, name))

NonNull(v) == v.t # "none"

\* descriptor s satisfies every predicate criteria c contributes, where
\* Given(v) says that a value v specifies its option and an aliased pair
\* (a, b) contributes the value of a when given, else that of b
Wanted(c, s, Given(_)) ==
    LET Pick(a, b) == IF Given(c[a]) THEN c[a] ELSE c[b]
        Eq(o, name) == Given(c[o]) => Matches(s, name, c[o])
        EqPair(a, b, name) ==
            Given(Pick(a, b)) => Matches(s, name, Pick(a, b))
    IN /\ EqPair("res", "resolution", "resolution")
       /\ Eq("fps", "fps")
       /\ Eq("mime_type", "mime_type")
       /\ Eq("type", "type")
       /\ EqPair("subtype", "file_extension", "subtype")
       /\ EqPair("abr", "bitrate", "abr")
       /\ Eq("video_codec", "video_codec")
       /\ Eq("audio_codec", "audio_codec")
       /\ (Given(c.only_audio) =>
             Flag(s, "includes_audio_track") /\ ~Flag(s, "includes_video_track"))
       /\ (Given(c.only_video) =>
             Flag(s, "includes_video_track") /\ ~Flag(s, "includes_audio_track"))
       /\ (Given(c.progressive) => Flag(s, "is_progressive"))
       /\ (Given(c.adaptive) => Flag(s, "is_adaptive"))
       /\ (Given(c.custom_filter_functions) =>
             \A i \in 1..Len(c.custom_filter_functions.l) :
                ApplyCustom(c.custom_filter_functions.l[i], s) = "T")

\* C1 as stated: filter(C).all() is the subsequence of Q.all() of the
\* descriptors satisfying one predicate per option that is not null.
C1_FilterNonNull ==
    Returns("filter") =>
        LET Keep(s) == Wanted(last.crit, s, NonNull)
        IN Result = SelectSeq(last.pre, Keep)

\* C1 amended: filter(C).all() is the subsequence of Q.all(), in the same
\* relative order, of the descriptors satisfying one predicate per option
\* whose value is truthy (an omitted, null, false, 0, "" or [] option adds
\* none), an aliased pair adding one predicate on its first truthy value.
C1_FilterTruthy ==
    Returns("filter") =>
        LET Keep(s) == Wanted(last.crit, s, Truthy)
        IN Result = SelectSeq(last.pre, Keep)

C1_Witness ==
    /\ Returns("filter")
    /\ Truthy(last.crit.type)
    /\ Truthy(last.crit.custom_filter_functions)
    /\ Len(Result) > 1
    /\ Len(Result) < Len(last.pre)

\* C2: in every Query the index maps exactly the identifiers occurring in
\* its sequence, each to the last descriptor of the sequence carrying it.
C2_IndexIsView ==
    \A q \in Q :
        /\ DOMAIN QIdx(q) = {Itag(s) : s \in Range(QSeq(q))}
        /\ \A i \in 1..Len(QSeq(q)) :
              (\A j \in (i + 1)..Len(QSeq(q)) : Itag(QSeq(q)[j]) # Itag(QSeq(q)[i]))
                  => QIdx(q)[Itag(QSeq(q)[i])] = QSeq(q)[i]

C2_Witness ==
    /\ last.op \in {"filter", "order_by", "desc"}
    /\ last.retq > 1
    /\ \E i, j \in 1..Len(Result) :
          /\ i < j
          /\ Itag(Result[i]) = Itag(Result[j])
          /\ QIdx(last.retq)[Itag(Result[i])] = Result[j]

\* C3: a filter, order_by or desc call returns a new Query and leaves every
\* existing Query's sequence, index and accessor results as they were.
C3_ReceiverUntouched ==
    [][last'.op \in {"filter", "order_by", "desc"} =>
        /\ \A q \in Q :
              /\ queries'[q] = queries[q]
              /\ lists'[queries[q].fmt_streams] = lists[queries[q].fmt_streams]
              /\ FirstResult(q)' = FirstResult(q)
              /\ LastResult(q)' = LastResult(q)
              /\ Len(QSeq(q))' = Len(QSeq(q))
              /\ \A itag \in Ids : GetByItagResult(q, itag)' = GetByItagResult(q, itag)
        /\ last'.outcome = "ok" =>
              /\ last'.retq \notin Q
              /\ last'.retq \in 1..Len(queries')]_vars

C3_Witness ==
    /\ Returns("desc")
    /\ last.retq # last.q
    /\ Len(last.pre) > 1
    /\ Result # last.pre
    /\ QSeq(last.q) = last.pre

\* C4: no modification made through the handle returned by all() changes
\* the sequence the Query shows afterwards or its agreement with the index.
C4_HandleIsolated ==
    last.op \in {"handle_append", "handle_pop", "handle_reverse"} =>
        /\ QSeq(last.q) = last.pre
        /\ C2_IndexIsView

\* C5: get_by_itag(id) returns the last descriptor of the sequence carrying
\* identifier id, and absent (without raising) when no descriptor carries it.
C5_Lookup ==
    last.op = "get_by_itag" =>
        LET carriers == {i \in 1..Len(last.pre) : Itag(last.pre[i]) = PyInt(last.id)}
        IN /\ last.outcome = "ok"
           /\ IF carriers = {} THEN last.rets = 0
              ELSE last.rets = last.pre[CHOOSE i \in carriers : \A j \in carriers : j <= i]

AliasNames == {"res", "resolution", "subtype", "file_extension", "abr", "bitrate"}
OnlyAliases(c) == \A o \in OptionNames \ AliasNames : c[o] = None

\* the value an aliased pair compares against when `first` is preferred
Preferred(c, first, second, Given(_)) ==
    IF Given(c[first]) THEN c[first] ELSE c[second]

\* C6 as stated: with both names of an aliased pair non-null the one
\* predicate compares against the value under resolution, subtype, bitrate;
\* with one of them non-null, against that one.
C6_PrimaryNonNull ==
    (Returns("filter") /\ OnlyAliases(last.crit)) =>
        LET c == last.crit
            V(a, b) == Preferred(c, a, b, NonNull)
            Keep(s) ==
                /\ NonNull(V("resolution", "res")) =>
                      Matches(s, "resolution", V("resolution", "res"))
                /\ NonNull(V("subtype", "file_extension")) =>
                      Matches(s, "subtype", V("subtype", "file_extension"))
                /\ NonNull(V("bitrate", "abr")) =>
                      Matches(s, "abr", V("bitrate", "abr"))
        IN Result = SelectSeq(last.pre, Keep)

\* C6 amended: with both names of an aliased pair truthy the one predicate
\* compares against the value under res, subtype, abr; with one of them
\* truthy, against that one; with neither truthy no predicate is added.
C6_FirstTruthy ==
    (Returns("filter") /\ OnlyAliases(last.crit)) =>
        LET c == last.crit
            V(a, b) == Preferred(c, a, b, Truthy)
            Keep(s) ==
                /\ Truthy(V("res", "resolution")) =>
                      Matches(s, "resolution", V("res", "resolution"))
                /\ Truthy(V("subtype", "file_extension")) =>
                      Matches(s, "subtype", V("subtype", "file_extension"))
                /\ Truthy(V("abr", "bitrate")) =>
                      Matches(s, "abr", V("abr", "bitrate"))
        IN Result = SelectSeq(last.pre, Keep)

C6_Witness ==
    /\ Returns("filter")
    /\ OnlyAliases(last.crit)
    /\ Truthy(last.crit.res)
    /\ Truthy(last.crit.resolution)
    /\ ~PyEq(last.crit.res, last.crit.resolution)
    /\ Result # <<>>
    /\ \E i \in 1..Len(last.pre) :
          Matches(last.pre[i], "resolution", last.crit.resolution)

\* C7: order_by(attr) returns a permutation of Q.all() that is non-decreasing
\* in attr and keeps descriptors of equal attr in their order of Q.all().
C7_StableSort ==
    Returns("order_by") =>
        LET Key(s) == GetAttr(s, last.attr)
        IN /\ Len(Result) = Len(last.pre)
           /\ Range(Result) = Range(last.pre)
           /\ \A i, j \in 1..Len(Result) :
                 i < j =>
                    /\ ~PyLess(Key(Result[j]), Key(Result[i]))
                    /\ PyEq(Key(Result[i]), Key(Result[j])) =>
                          Pos(last.pre, Result[i]) < Pos(last.pre, Result[j])

C7_Witness ==
    /\ Returns("order_by")
    /\ Result # last.pre
    /\ \E i, j \in 1..Len(Result) :
          /\ i < j
          /\ PyEq(GetAttr(Result[i], last.attr), GetAttr(Result[j], last.attr))

\* C8: on a Query with an empty sequence no accessor raises: first, last and
\* get_by_itag return absent, count returns 0 and all an empty sequence.
C8_EmptyAccessors ==
    last.pre = <<>> =>
        /\ last.op \in {"first", "last", "get_by_itag"} =>
              last.outcome = "ok" /\ last.rets = 0
        /\ last.op = "count" => last.outcome = "ok" /\ last.retn = 0
        /\ last.op = "all" => last.outcome = "ok" /\ lists[last.reth] = <<>>

C8_Witness ==
    /\ last.op = "last"
    /\ last.pre = <<>>
    /\ last.q > 1
    /\ last.rets = 0

C10_AttributeError ==
    [][last'.op = "order_by" =>
        LET missing == \E i \in 1..Len(QSeq(last'.q)) :
                          ~HasAttr(QSeq(last'.q)[i], last'.attr)
        IN /\ last'.outcome = "AttributeError" <=> missing
           /\ ~missing => last'.outcome = "ok"
           /\ missing => /\ last'.retq = 0
                         /\ queries' = queries
                         /\ lists' = lists]_vars

C10_Witness ==
    /\ last.op = "order_by"
    /\ last.outcome = "AttributeError"
    /\ last.attr = "fps"
    /\ \E i \in 1..Len(last.pre) : HasAttr(last.pre[i], "fps")
====
